---- MODULE Spec2Model ----
(***************************************************************************)
(* Event cancellation / undo workflow of the Volcanoes event system.       *)
(*                                                                         *)
(*   services/event_cancellation_manager.py  EventCancellationManager      *)
(*   services/event_cancellation_service.py  EventCancellationService      *)
(*   models/event.py, models/user.py, models/feed_service.py,              *)
(*   services/rsvp_service.py, utils/notification_utils.py                 *)
(*                                                                         *)
(* Time is counted in whole minutes since the start of the run; a          *)
(* datetime is a natural number and datetime.now() is the variable now.    *)
(* Python's None is NoneVal for identifiers and NoTime for datetimes.      *)
(* A str whose characters matter (a cancellation reason) is the sequence   *)
(* of its Unicode code points, and None in its place is NoReason.          *)
(***************************************************************************)
EXTENDS Integers, Sequences, FiniteSets, TLC

\* ------------------------------------------------------------------ bounds
MaxTime == 11        \* the clock stops advancing here
MaxRsvps == 2        \* most RSVPs stored before the run
MaxLogs == 2         \* longest notification log explored
MaxIntegrations == 2 \* longest list of integrations passed to sync_event
MaxSyncResults == 3  \* longest sync history explored
MaxFeed == 2         \* longest feed explored
MaxRootRsvps == 2    \* most records kept by the root-level RSVPService

\* --------------------------------------------------------------- constants
UndoWindowMinutes == 10      \* timedelta(minutes=10)
LateNoticeHours == 24        \* hours_until_event < 24
MinutesPerHour == 60         \* total_seconds() / 3600, in minutes

NoneVal == "<None>"          \* Python None in an identifier-valued field
Absent == "<absent>"         \* attribute never assigned (hasattr is false)
NoTime == -1                 \* Python None in a datetime-valued field

\* ------------------------------------------------------------------- str
\* the printable ASCII characters in code point order, U+0020..U+005F and U+0061..U+007E
\* (U+0060 cannot be written in a string of this language)
AsciiLow == " !\"#$%&'()*+,-./0123456789:;<=>?@ABCDEFGHIJKLMNOPQRSTUVWXYZ[\\]^_"
AsciiHigh == "abcdefghijklmnopqrstuvwxyz{|}~"

\* the code point of each printable ASCII character
CodePoints ==
    [c \in { SubSeq(AsciiLow, i, i) : i \in 1..Len(AsciiLow) }
            \cup { SubSeq(AsciiHigh, i, i) : i \in 1..Len(AsciiHigh) } |->
        IF \E i \in 1..Len(AsciiLow) : SubSeq(AsciiLow, i, i) = c
        THEN 31 + CHOOSE i \in 1..Len(AsciiLow) : SubSeq(AsciiLow, i, i) = c
        ELSE 96 + CHOOSE i \in 1..Len(AsciiHigh) : SubSeq(AsciiHigh, i, i) = c]

\* ord(c) of a printable ASCII character
ord(c) == CodePoints[c]

\* the Python str with the given printable ASCII text, as its code points
str(text) == [i \in 1..Len(text) |-> ord(SubSeq(text, i, i))]

NoReason == <<-1>>           \* Python None where a str is expected: equal to no str

NoRecord == [status |-> NoneVal, canceled_at |-> NoTime, canceled_by |-> NoneVal,
             cancellation_reason |-> NoReason, timestamp |-> NoTime]

EventIds == {"e1"}
Users == { [user_id |-> "t1", role |-> "teacher"],
           [user_id |-> "s1", role |-> "student"],
           [user_id |-> "s2", role |-> "student"] }
NoUser == [user_id |-> NoneVal, role |-> NoneVal]
Organizers == {"t1", "s1"}
StartTimes == {480, 1445}            \* 8 hours ahead; 24 hours and 5 minutes ahead
OtherEventId == "e0"                 \* an event id that RSVPs may name besides EventIds
InitStatuses == {"SCHEDULED", "CANCELED", "POSTPONED"}
Reasons == {NoReason, str(""), str(" "), str("sick")}
TickSteps == {5, 6}
StudentAt(i) == "s" \o ToString(i)    \* the i-th RSVP is made by student i
RsvpStatuses == {"CONFIRMED", "CANCELED"}
AlertUsers == {"s1", "s2"}            \* the users whose subscriptions are followed

VARIABLES
    now,                 \* datetime.now()
    events,              \* the Event objects, by id
    history,             \* EventCancellationManager._cancellation_history
    feed,                \* FeedService.feed (list of events, by id)
    rsvps,               \* RSVPService._rsvps
    logs,                \* utils NotificationService._notification_logs
    sync_results,        \* CalendarSyncService._sync_results
    alerts,              \* User.alerts, by user id
    root_rsvps,          \* the root-level RSVPService.rsvps
    titles,              \* Events.title of the root-level Events objects, by object
    last                 \* the most recent call: its arguments and what it returned or raised

vars ==
    <<now, events, history, feed, rsvps, logs, sync_results, alerts, root_rsvps, titles,
      last>>

\* ------------------------------------------------------------------ Event
\* Event.__init__: canceled_by is not an attribute of a new Event
Event(id, starts_at, organizer_id, status) ==
    [id |-> id, starts_at |-> starts_at, organizer_id |-> organizer_id,
     status |-> status, cancellation_reason |-> NoReason, canceled_at |-> NoTime,
     canceled_by |-> Absent]

\* Event.cancel(reason, canceled_at)
cancel(event, reason, canceled_at) ==
    [event EXCEPT !.status = "CANCELED",
                  !.cancellation_reason = reason,
                  !.canceled_at = canceled_at]

\* --------------------------------------------- EventCancellationManager
\* variant: the teacher rule is missing, only the organizer may act
_check_permission_organizer_only(event, user) ==
    IF event.organizer_id = user.user_id THEN TRUE ELSE FALSE

\* _check_permission with permission_service = None
_check_permission(event, user) ==
    IF event.organizer_id = user.user_id THEN TRUE
    ELSE IF user.role = "teacher" THEN TRUE
    ELSE FALSE

\* variant: the already-canceled check never fires
already_canceled_never(event) == FALSE

\* cancel_event step 2: event.status == 'CANCELED'
already_canceled(event) == event.status = "CANCELED"

\* cancel_event step 3: the previous_state dict stored for a later undo
previous_state(event, t) ==
    [status |-> event.status, canceled_at |-> NoTime, canceled_by |-> NoneVal,
     cancellation_reason |-> NoReason, timestamp |-> t]

\* variant: the cancellation time is written only the first time the event is canceled
cancellation_time_first_only(event, t) ==
    IF event.canceled_by = Absent THEN t ELSE event.canceled_at

\* cancel_event step 4: event.canceled_at = datetime.now(), whatever it held before
cancellation_time(event, t) == t

\* variant: the metadata is written but the status is left as it was
canceled_event_status_kept(event, user, reason, t) ==
    [event EXCEPT !.canceled_at = cancellation_time(event, t),
                  !.canceled_by = user.user_id, !.cancellation_reason = reason]

\* cancel_event step 4: the event once canceled
canceled_event(event, user, reason, t) ==
    [event EXCEPT !.status = "CANCELED", !.canceled_at = cancellation_time(event, t),
                  !.canceled_by = user.user_id, !.cancellation_reason = reason]

\* variant: the history lookup is skipped
has_history_assumed(hist, event_id) == TRUE

\* event.id in self._cancellation_history
has_history(hist, event_id) == hist[event_id] # NoRecord

\* variant: the clock is read twice and the cancellation time is not used
time_elapsed_between_readings(canceled_at, current_time) == current_time - current_time

\* undo_cancel step 3: time_elapsed = current_time - event.canceled_at
time_elapsed(canceled_at, current_time) == current_time - canceled_at

\* variant: the window closes at exactly 10 minutes (>= for >)
window_expired_at_limit(canceled_at, t) == time_elapsed(canceled_at, t) >= UndoWindowMinutes

\* time_elapsed > timedelta(minutes=10)
window_expired(canceled_at, t) == time_elapsed(canceled_at, t) > UndoWindowMinutes

\* variant: the status is reset to SCHEDULED instead of the recorded one
restored_event_scheduled(event, record) ==
    [event EXCEPT !.status = "SCHEDULED", !.canceled_at = NoTime,
                  !.canceled_by = NoneVal, !.cancellation_reason = NoReason]

\* undo_cancel step 5: status restored from the record, cancellation metadata cleared
restored_event(event, record) ==
    [event EXCEPT !.status = record.status, !.canceled_at = NoTime,
                  !.canceled_by = NoneVal, !.cancellation_reason = NoReason]

\* undo_cancel step 8: del self._cancellation_history[event.id]
forget(hist, event_id) == [hist EXCEPT ![event_id] = NoRecord]

\* what a call that raised leaves behind: nothing changed, no collaborator invoked
Raised(event, hist, msg) ==
    [event |-> event, history |-> hist, ok |-> FALSE, msg |-> msg, effects |-> <<>>]

\* variant: the permission check comes after the state has been written
cancel_event_late_check(event, hist, user, reason, t) ==
    IF already_canceled(event) THEN Raised(event, hist, "already_canceled")
    ELSE IF ~_check_permission(event, user)
    THEN [event |-> canceled_event(event, user, reason, t),
          history |-> [hist EXCEPT ![event.id] = previous_state(event, t)],
          ok |-> FALSE, msg |-> "permission", effects |-> <<>>]
    ELSE [event |-> canceled_event(event, user, reason, t),
          history |-> [hist EXCEPT ![event.id] = previous_state(event, t)],
          ok |-> TRUE, msg |-> "canceled",
          effects |-> <<"trigger_notifications", "remove_from_feed">>]

\* cancel_event(event, user, reason) at time t, with the default collaborators.
\* Result: the event and the history after the call, and what was returned or raised.
cancel_event(event, hist, user, reason, t) ==
    IF ~_check_permission(event, user) THEN Raised(event, hist, "permission")
    ELSE IF already_canceled(event) THEN Raised(event, hist, "already_canceled")
    ELSE [event |-> canceled_event(event, user, reason, t),
          history |-> [hist EXCEPT ![event.id] = previous_state(event, t)],
          ok |-> TRUE, msg |-> "canceled",
          effects |-> <<"trigger_notifications", "remove_from_feed">>]

\* variant: the permission check comes first, as it does in cancel_event
undo_precondition_permission_first(event, hist, user, t) ==
    IF ~_check_permission(event, user) THEN "permission"
    ELSE IF event.status # "CANCELED" THEN "not_canceled"
    ELSE IF ~has_history(hist, event.id) THEN "no_history"
    ELSE IF event.canceled_at = NoTime THEN "TypeError"
    ELSE IF window_expired(event.canceled_at, t) THEN "expired"
    ELSE "ok"

\* undo_cancel steps 1 to 4, in the order of the code: the error raised by the first
\* check that fails, or "ok" (datetime.now() - None is a TypeError)
undo_precondition(event, hist, user, t) ==
    IF event.status # "CANCELED" THEN "not_canceled"
    ELSE IF ~has_history(hist, event.id) THEN "no_history"
    ELSE IF event.canceled_at = NoTime THEN "TypeError"
    ELSE IF window_expired(event.canceled_at, t) THEN "expired"
    ELSE IF ~_check_permission(event, user) THEN "permission"
    ELSE "ok"

\* variant: the cancellation reason survives the undo
undo_cancel_keeps_reason(event, hist, user, t) ==
    IF event.status # "CANCELED" THEN Raised(event, hist, "not_canceled")
    ELSE IF ~has_history(hist, event.id) THEN Raised(event, hist, "no_history")
    ELSE IF event.canceled_at = NoTime THEN Raised(event, hist, "TypeError")
    ELSE IF window_expired(event.canceled_at, t) THEN Raised(event, hist, "expired")
    ELSE IF ~_check_permission(event, user) THEN Raised(event, hist, "permission")
    ELSE [event |-> [restored_event(event, hist[event.id])
                        EXCEPT !.cancellation_reason = event.cancellation_reason],
          history |-> forget(hist, event.id),
          ok |-> TRUE, msg |-> "undone",
          effects |-> <<"add_to_feed", "notify_restoration">>]

\* undo_cancel(event, user) at time t, with the default collaborators
undo_cancel(event, hist, user, t) ==
    IF undo_precondition(event, hist, user, t) # "ok"
    THEN Raised(event, hist, undo_precondition(event, hist, user, t))
    ELSE [event |-> restored_event(event, hist[event.id]),
          history |-> forget(hist, event.id),
          ok |-> TRUE, msg |-> "undone",
          effects |-> <<"add_to_feed", "notify_restoration">>]

\* ------------------------------------------------------------ FeedService
\* FeedService.add_event: append unless the event is canceled
add_event(fd, event) == IF event.status # "CANCELED" THEN Append(fd, event.id) ELSE fd

\* list.remove: drop the first occurrence
RECURSIVE list_remove(_, _)
list_remove(lst, x) ==
    IF lst = <<>> THEN <<>>
    ELSE IF Head(lst) = x THEN Tail(lst)
    ELSE <<Head(lst)>> \o list_remove(Tail(lst), x)

\* FeedService.remove_event: remove the event if it is in the feed
remove_event(fd, event) ==
    IF \E i \in 1..Len(fd) : fd[i] = event.id THEN list_remove(fd, event.id) ELSE fd

\* what a collaborator passed to the manager may do when it is called: return the dict
\* the manager reads with .get, return None, or raise
CollaboratorBehaviours == {"dict", "none", "raises"}

\* the feed services a manager may be given: one of the behaviours above, which leave
\* the feed alone, or the repository's FeedService, whose add_event and remove_event
\* change the feed and return None
FeedServices == CollaboratorBehaviours \cup {"FeedService"}

\* the outcome r of a manager call together with the feed it leaves
WithFeed(r, fd) ==
    [event |-> r.event, history |-> r.history, ok |-> r.ok, msg |-> r.msg,
     effects |-> r.effects, feed |-> fd]

\* cancel_event(event, user, reason) at time t with a notification service and a feed
\* service that behave as given. Steps 5 and 6 are not inside a try, and the result dict
\* calls .get on what they returned. With the repository's FeedService step 6 removes
\* the event from the feed fd and hands back None, so the result dict raises.
cancel_event_with(event, fd, hist, user, reason, t, notification, feed_service) ==
    LET written == [hist EXCEPT ![event.id] = previous_state(event, t)]
        canceled == canceled_event(event, user, reason, t)
        removed == IF feed_service = "FeedService" THEN remove_event(fd, canceled) ELSE fd
    IN IF ~_check_permission(event, user) THEN WithFeed(Raised(event, hist, "permission"), fd)
       ELSE IF already_canceled(event)
       THEN WithFeed(Raised(event, hist, "already_canceled"), fd)
       ELSE IF notification = "raises"
       THEN [event |-> canceled, history |-> written, ok |-> FALSE, msg |-> "collaborator",
             effects |-> <<"trigger_notifications">>, feed |-> fd]
       ELSE IF feed_service = "raises" \/ notification = "none"
               \/ feed_service \in {"none", "FeedService"}
       THEN [event |-> canceled, history |-> written, ok |-> FALSE, msg |-> "collaborator",
             effects |-> <<"trigger_notifications", "remove_from_feed">>, feed |-> removed]
       ELSE [event |-> canceled, history |-> written, ok |-> TRUE, msg |-> "canceled",
             effects |-> <<"trigger_notifications", "remove_from_feed">>, feed |-> fd]

\* undo_cancel(event, user) at time t with collaborators that behave as given: the event
\* is restored in step 5, the collaborators run in steps 6 and 7, the record is deleted
\* in step 8, and the result dict calls .get on what the collaborators returned. With
\* the repository's FeedService step 6 adds the restored event to the feed fd and hands
\* back None, so the result dict raises.
undo_cancel_with(event, fd, hist, user, t, notification, feed_service) ==
    LET restored == restored_event(event, hist[event.id])
        added == IF feed_service = "FeedService" THEN add_event(fd, restored) ELSE fd
    IN IF event.status # "CANCELED" THEN WithFeed(Raised(event, hist, "not_canceled"), fd)
       ELSE IF ~has_history(hist, event.id)
       THEN WithFeed(Raised(event, hist, "no_history"), fd)
       ELSE IF event.canceled_at = NoTime THEN WithFeed(Raised(event, hist, "TypeError"), fd)
       ELSE IF window_expired(event.canceled_at, t)
       THEN WithFeed(Raised(event, hist, "expired"), fd)
       ELSE IF ~_check_permission(event, user)
       THEN WithFeed(Raised(event, hist, "permission"), fd)
       ELSE IF feed_service = "raises"
       THEN [event |-> restored, history |-> hist,
             ok |-> FALSE, msg |-> "collaborator", effects |-> <<"add_to_feed">>,
             feed |-> fd]
       ELSE IF notification = "raises"
       THEN [event |-> restored, history |-> hist,
             ok |-> FALSE, msg |-> "collaborator",
             effects |-> <<"add_to_feed", "notify_restoration">>, feed |-> added]
       ELSE IF notification = "none" \/ feed_service \in {"none", "FeedService"}
       THEN [event |-> restored, history |-> forget(hist, event.id),
             ok |-> FALSE, msg |-> "collaborator",
             effects |-> <<"add_to_feed", "notify_restoration">>, feed |-> added]
       ELSE [event |-> restored, history |-> forget(hist, event.id),
             ok |-> TRUE, msg |-> "undone",
             effects |-> <<"add_to_feed", "notify_restoration">>, feed |-> fd]

\* get_cancellation_history(event_id): the stored dict, or None
get_cancellation_history(hist, event_id) == hist[event_id]

\* variant: can_undo closes the window at exactly 10 minutes
can_undo_expired_at_limit(canceled_at, t) == (t - canceled_at) >= UndoWindowMinutes

\* can_undo's own comparison: time_elapsed > timedelta(minutes=10)
can_undo_expired(canceled_at, t) == (t - canceled_at) > UndoWindowMinutes

\* variant: the time window is not looked at
can_undo_no_window(event, hist, t) ==
    IF event.status # "CANCELED" THEN <<FALSE, "Event is not canceled">>
    ELSE IF ~has_history(hist, event.id) THEN <<FALSE, "No cancellation history found">>
    ELSE IF event.canceled_at = NoTime THEN <<FALSE, "Cancellation timestamp not found">>
    ELSE <<TRUE, "Can be undone">>

\* can_undo(event) at time t: <<can_undo, reason>>
can_undo(event, hist, t) ==
    IF event.status # "CANCELED" THEN <<FALSE, "Event is not canceled">>
    ELSE IF ~has_history(hist, event.id) THEN <<FALSE, "No cancellation history found">>
    ELSE IF event.canceled_at = NoTime THEN <<FALSE, "Cancellation timestamp not found">>
    ELSE IF can_undo_expired(event.canceled_at, t) THEN <<FALSE, "Time window expired">>
    ELSE <<TRUE, "Can be undone">>

\* variant: a check on an expired cancellation drops the stale record
can_undo_call_purging(event, hist, t) ==
    [event |-> event,
     history |-> IF can_undo(event, hist, t)[2] = "Time window expired"
                 THEN forget(hist, event.id) ELSE hist,
     raised |-> FALSE, result |-> can_undo(event, hist, t)]

\* a call of can_undo(event): what it leaves behind and what it returns; the method has
\* no assignment and no raise statement, every path ends in a return
can_undo_call(event, hist, t) ==
    [event |-> event, history |-> hist, raised |-> FALSE, result |-> can_undo(event, hist, t)]

\* ------------------------------------------------------------ RSVPService
RSVP(event_id, student_id, status) ==
    [event_id |-> event_id, student_id |-> student_id, status |-> status]

\* variant: a second RSVP of the same student for the same event is dropped
add_rsvp_unique(store, rsvp) ==
    IF \E i \in 1..Len(store) :
          store[i].event_id = rsvp.event_id /\ store[i].student_id = rsvp.student_id
    THEN store ELSE Append(store, rsvp)

\* services.RSVPService.add_rsvp
add_rsvp(store, rsvp) == Append(store, rsvp)

\* variant: the status of the RSVP is not looked at
get_event_rsvps_any_status(store, event_id) ==
    LET keep(r) == r.event_id = event_id IN SelectSeq(store, keep)

\* services.RSVPService.get_event_rsvps: the CONFIRMED RSVPs of the event, in stored order
get_event_rsvps(store, event_id) ==
    LET keep(r) == r.event_id = event_id /\ r.status = "CONFIRMED" IN SelectSeq(store, keep)

\* services.RSVPService.get_rsvp_count
get_rsvp_count(store, event_id) == Len(get_event_rsvps(store, event_id))

\* ------------------------------------------------ EventCancellationService
\* the code points str.strip() removes, those for which str.isspace() holds:
\* U+0009..U+000D, U+001C..U+0020, U+0085, U+00A0, U+1680, U+2000..U+200A, U+2028,
\* U+2029, U+202F, U+205F and U+3000
Whitespace ==
    (9..13) \cup (28..32) \cup {133, 160, 5760} \cup (8192..8202)
        \cup {8232, 8233, 8239, 8287, 12288}

\* str.strip(): drop leading and trailing whitespace
RECURSIVE lstrip(_)
lstrip(s) ==
    IF Len(s) = 0 THEN s
    ELSE IF s[1] \in Whitespace THEN lstrip(SubSeq(s, 2, Len(s)))
    ELSE s
RECURSIVE rstrip(_)
rstrip(s) ==
    IF Len(s) = 0 THEN s
    ELSE IF s[Len(s)] \in Whitespace THEN rstrip(SubSeq(s, 1, Len(s) - 1))
    ELSE s
strip(s) == rstrip(lstrip(s))

\* variant: only `not reason`, the text is not stripped
reason_missing_unstripped(reason) == reason = NoReason \/ reason = <<>>

\* not reason or reason.strip() == ''
reason_missing(reason) ==
    IF reason = NoReason \/ reason = <<>> THEN TRUE ELSE strip(reason) = <<>>

\* variant: exactly 24 hours of notice counts as late
is_late_inclusive(starts_at, t) == (starts_at - t) <= LateNoticeHours * MinutesPerHour

\* hours_until_event < 24, with hours_until_event = minutes / 60
is_late(starts_at, t) == (starts_at - t) < LateNoticeHours * MinutesPerHour

\* validate_cancellation_reason(event, reason) at time t; raised means ValidationError
validate_cancellation_reason(event, reason, t) ==
    LET late == is_late(event.starts_at, t) IN
    IF late /\ reason_missing(reason)
    THEN [raised |-> TRUE, valid |-> FALSE, is_late_cancellation |-> late,
          minutes_until_event |-> event.starts_at - t]
    ELSE [raised |-> FALSE, valid |-> TRUE, is_late_cancellation |-> late,
          minutes_until_event |-> event.starts_at - t]

NotificationLog(student_id, event_id, notification_type, sent_at, urgent) ==
    [student_id |-> student_id, event_id |-> event_id,
     notification_type |-> notification_type, sent_at |-> sent_at, urgent |-> urgent]

\* NotificationService.log_notification(log_entry): the entry is appended to the log
log_notification(lg, log_entry) == Append(lg, log_entry)

\* variant: exactly 24 hours of notice is urgent
urgent_flag_inclusive(starts_at, t) == (starts_at - t) <= LateNoticeHours * MinutesPerHour

\* notify_rsvp_cancellation's own computation: urgent_flag = hours_until_event < 24
urgent_flag(starts_at, t) == (starts_at - t) < LateNoticeHours * MinutesPerHour

\* notify_rsvp_cancellation(event) at time t: send_cancellation_email always succeeds,
\* so every confirmed RSVP gets one log entry
notify_rsvp_cancellation(event, store, lg, t) ==
    LET urgent == urgent_flag(event.starts_at, t)
        confirmed == get_event_rsvps(store, event.id)
        entries == [i \in 1..Len(confirmed) |->
                       NotificationLog(confirmed[i].student_id, event.id, "CANCELLATION",
                                       t, urgent)]
    IN [logs |-> lg \o entries,
        event_id |-> event.id,
        rsvp_count |-> Len(confirmed),
        notifications_sent |-> Len(confirmed),
        urgent |-> urgent,
        minutes_until_event |-> event.starts_at - t,
        notified_students |-> [i \in 1..Len(confirmed) |-> confirmed[i].student_id]]

\* EventCancellationService.cancel_event(event, reason) at time t
service_cancel_event(event, fd, store, lg, reason, t) ==
    LET v == validate_cancellation_reason(event, reason, t) IN
    IF v.raised
    THEN [event |-> event, feed |-> fd, logs |-> lg, ok |-> FALSE, msg |-> "validation",
          effects |-> <<>>]
    ELSE LET canceled == cancel(event, reason, t)
             n == notify_rsvp_cancellation(canceled, store, lg, t)
         IN [event |-> canceled, feed |-> remove_event(fd, canceled), logs |-> n.logs,
             ok |-> TRUE, msg |-> "canceled",
             effects |-> <<"remove_event", "notify_followers", "notify_rsvp_cancellation">>]

\* ---------------------------------------------------- CalendarSyncService
SyncResult(event_id, integration, success, timestamp, message) ==
    [event_id |-> event_id, integration |-> integration, success |-> success,
     timestamp |-> timestamp, message |-> message]

\* the description of the event (the model's events carry no free text of their own)
description(event) == str("About ") \o str(event.id)

\* Component.add('dtstart', event.starts_at): the calendar library takes a date or a
\* time and raises on anything else
ics_accepts(event) == event.starts_at # NoTime

\* variant: every event that is not SCHEDULED is written as cancelled
ics_status_unless_scheduled(event) ==
    IF event.status # "SCHEDULED" THEN <<"STATUS", "CANCELLED">> ELSE <<"STATUS", "CONFIRMED">>

\* the STATUS property added for the event
ics_status(event) ==
    IF event.status = "CANCELED" THEN <<"STATUS", "CANCELLED">> ELSE <<"STATUS", "CONFIRMED">>

\* the DESCRIPTION property: the reason is added for a canceled event with a truthy reason
ics_description(event) ==
    IF /\ event.status = "CANCELED"
       /\ event.cancellation_reason # NoReason /\ event.cancellation_reason # <<>>
    THEN <<"DESCRIPTION", description(event) \o <<10, 10>> \o str("CANCELED: ")
                              \o event.cancellation_reason>>
    ELSE <<"DESCRIPTION", description(event)>>

\* generate_ics_data(event): the properties of the VEVENT, or raised
generate_ics_data(event) ==
    IF ~ics_accepts(event) THEN [raised |-> TRUE, ics |-> <<>>]
    ELSE [raised |-> FALSE,
          ics |-> << <<"UID", event.id \o "@xavier.edu">>,
                     ics_description(event),
                     <<"DTSTART", ToString(event.starts_at)>>,
                     <<"ORGANIZER", "mailto:" \o event.organizer_id \o "@xavier.edu">>,
                     ics_status(event) >>]

\* the integrations argument of sync_event: None, or a list of names
NoIntegrations == [given |-> FALSE, names |-> <<>>]
Listed(names) == [given |-> TRUE, names |-> names]

\* if integrations is None: integrations = ['google_calendar', 'outlook']
integrations_or_default(integrations) ==
    IF ~integrations.given THEN <<"google_calendar", "outlook">> ELSE integrations.names

\* variant: an integration the service does not know counts as synced
push_assumed_ok(integration) == TRUE

\* the branch of the loop body: sync_to_google_calendar and sync_to_outlook return True,
\* any other name gives success = False
push(integration) ==
    IF integration = "google_calendar" THEN TRUE
    ELSE IF integration = "outlook" THEN TRUE
    ELSE FALSE

\* variant: the results of a call are put in front of the history
record_results_in_front(results, new) == new \o results

\* self._sync_results.append(result), once per integration
record_results(results, new) == results \o new

\* the number of results with the given outcome
RECURSIVE count_success(_, _)
count_success(results, outcome) ==
    IF results = <<>> THEN 0
    ELSE (IF Head(results).success = outcome THEN 1 ELSE 0) + count_success(Tail(results), outcome)

\* variant: a failed generation does not stop the pushes
sync_event_without_ics(event, integrations, results, t) ==
    LET names == integrations_or_default(integrations)
        new == [i \in 1..Len(names) |->
                   SyncResult(event.id, names[i], push(names[i]), t,
                              IF push(names[i]) THEN "Successfully synced" ELSE "Sync failed")]
    IN [results |-> record_results(results, new),
        pushes |-> SelectSeq(names, LAMBDA n : n \in {"google_calendar", "outlook"}),
        ret |-> [event_id |-> event.id, event_status |-> event.status,
                 ics_generated |-> ~generate_ics_data(event).raised,
                 integrations_synced |-> count_success(new, TRUE),
                 integrations_failed |-> count_success(new, FALSE),
                 sync_results |-> [i \in 1..Len(new) |->
                                      [integration |-> new[i].integration,
                                       success |-> new[i].success,
                                       message |-> new[i].message]],
                 timestamp |-> t]]

\* sync_event(event, integrations) at time t: the history it leaves, the push methods it
\* called and the dict it returns
sync_event(event, integrations, results, t) ==
    LET names == integrations_or_default(integrations)
        new == [i \in 1..Len(names) |->
                   SyncResult(event.id, names[i], push(names[i]), t,
                              IF push(names[i]) THEN "Successfully synced" ELSE "Sync failed")]
    IN IF generate_ics_data(event).raised
       THEN [results |-> results, pushes |-> <<>>,
             ret |-> [event_id |-> event.id, event_status |-> event.status,
                      ics_generated |-> FALSE, error |-> "dtstart", timestamp |-> t]]
       ELSE [results |-> record_results(results, new),
             pushes |-> SelectSeq(names, LAMBDA n : n \in {"google_calendar", "outlook"}),
             ret |-> [event_id |-> event.id, event_status |-> event.status,
                      ics_generated |-> TRUE,
                      integrations_synced |-> count_success(new, TRUE),
                      integrations_failed |-> count_success(new, FALSE),
                      sync_results |-> [i \in 1..Len(new) |->
                                           [integration |-> new[i].integration,
                                            success |-> new[i].success,
                                            message |-> new[i].message]],
                      timestamp |-> t]]

\* ------------------------------------------------------------ User, Alert
Alert(alert_id, event_type, text) ==
    [alert_id |-> alert_id, event_type |-> event_type, description |-> text]

\* Alert.__repr__
alert_repr(alert) ==
    "Alert(alert_id='" \o alert.alert_id \o "', event_type='" \o alert.event_type
        \o "', description='" \o alert.description \o "')"

\* variant: two alerts are equal only if all their fields are
alert_eq_all_fields(a, b) == a = b

\* Alert.__eq__: same alert_id
alert_eq(a, b) == a.alert_id = b.alert_id

\* alert_obj in self.alerts
alert_in(lst, alert) == \E i \in 1..Len(lst) : alert_eq(lst[i], alert)

\* self.alerts.remove(alert_obj): drop the first element equal to it
RECURSIVE alert_remove(_, _)
alert_remove(lst, alert) ==
    IF lst = <<>> THEN lst
    ELSE IF alert_eq(Head(lst), alert) THEN Tail(lst)
    ELSE <<Head(lst)>> \o alert_remove(Tail(lst), alert)

\* User.subscribe_to_alert: the list afterwards and the message returned
subscribe_to_alert(lst, alert) ==
    IF alert_in(lst, alert)
    THEN [alerts |-> lst, msg |-> "Already subscribed to alert: " \o alert_repr(alert)]
    ELSE [alerts |-> Append(lst, alert), msg |-> "Successfully subscribed"]

\* User.unsubscribe_from_alert
unsubscribe_from_alert(lst, alert) ==
    IF alert_in(lst, alert)
    THEN [alerts |-> alert_remove(lst, alert), msg |-> "No longer subscribed"]
    ELSE [alerts |-> lst, msg |-> "Not subscribed to this alert"]

\* ------------------------------------------------ root-level RSVPService
\* rsvp.RSVP as create_rsvp leaves it: status "going", created_at set
RootRSVP(event, user_id, role, status, created_at) ==
    [event |-> event, user_id |-> user_id, role |-> role, status |-> status,
     created_at |-> created_at]

\* variant: any earlier RSVP of the user for the event counts, whatever its status
is_active_rsvp_any_status(r, event, user) == r.event = event /\ r.user_id = user.user_id

\* r.event == event and r.user_id == user.user_id and r.status == "going"
is_active_rsvp(r, event, user) ==
    r.event = event /\ r.user_id = user.user_id /\ r.status = "going"

\* the texts of the messages the root-level RSVPService returns
AlreadyRsvpd == str("You have already RSVP") \o <<8217>> \o str("d to this event.")
ConfirmedFor == str("RSVP confirmed for '")
NoActiveRsvp == str("No active RSVP found to cancel.")
RsvpFor == str("RSVP for '")
HasBeenCancelled == str("' has been cancelled.")
EndQuote == str("'.")

\* create_rsvp(event, user) at time t, for the Events object event with the given title
\* (the refusal has U+2019 in RSVP'd)
create_rsvp(store, event, title, user, t) ==
    IF \E i \in 1..Len(store) : is_active_rsvp(store[i], event, user)
    THEN [rsvps |-> store, msg |-> AlreadyRsvpd]
    ELSE [rsvps |-> Append(store, RootRSVP(event, user.user_id, user.role, "going", t)),
          msg |-> ConfirmedFor \o title \o EndQuote]

\* cancel_rsvp(event, user): the first active RSVP of the user for the event is cancelled
cancel_rsvp(store, event, title, user) ==
    LET active == { i \in 1..Len(store) : is_active_rsvp(store[i], event, user) } IN
    IF active = {}
    THEN [rsvps |-> store, msg |-> NoActiveRsvp]
    ELSE LET first == CHOOSE i \in active : \A j \in active : i <= j IN
         [rsvps |-> [store EXCEPT ![first].status = "cancelled"],
          msg |-> RsvpFor \o title \o HasBeenCancelled]

\* ------------------------------------------------------------------ Events
\* the Events objects the RSVPs are made for; the titles of two objects may be equal
RootEvents == {"event1", "event2"}

\* the titles the two Events objects are created with
InitialTitles == [o \in RootEvents |->
                    IF o = "event1" THEN str("Hackathon") ELSE str("Seminar")]

MinNameLength == 5           \* len(cleaned) < 5
MaxNameLength == 100         \* len(cleaned) > 100

\* the characters of the class [A-Za-z0-9 '&:\-]
NameChars == (65..90) \cup (97..122) \cup (48..57) \cup {32, 39, 38, 58, 45}

\* re.match(r"^[A-Za-z0-9 '&:\-]+$", cleaned), for a stripped name (which ends with no
\* line feed)
name_pattern(cleaned) ==
    Len(cleaned) > 0 /\ \A i \in 1..Len(cleaned) : cleaned[i] \in NameChars

BannedWords == {str("inappropriate"), str("test event"), str("dummy")}

\* word in s
contains(s, word) ==
    \E i \in 1..(Len(s) - Len(word) + 1) : SubSeq(s, i, i + Len(word) - 1) = word

\* any(word in cleaned.lower() for word in banned_words). lower() is followed for the
\* code points whose lower case holds an ASCII character (A-Z, U+0130, U+212A); the lower
\* case of any other code point holds no character of a banned word.
has_banned_word(cleaned) ==
    LET low(c) == IF c \in 65..90 THEN <<c + 32>>
                  ELSE IF c = 304 THEN <<105, 775>>
                  ELSE IF c = 8490 THEN <<107>>
                  ELSE <<c>>
        RECURSIVE lower(_)
        lower(s) == IF s = <<>> THEN <<>> ELSE low(Head(s)) \o lower(Tail(s))
    IN \E word \in BannedWords : contains(lower(cleaned), word)

\* validate_event_name(new_name) raises ValueError: some rule is violated. The rule
\* cleaned == getattr(self, "name", None) never is: Events has no attribute name.
validate_event_name(new_name) ==
    LET cleaned == strip(new_name) IN
    \/ cleaned = <<>>
    \/ Len(cleaned) < MinNameLength \/ Len(cleaned) > MaxNameLength
    \/ ~name_pattern(cleaned)
    \/ has_banned_word(cleaned)

UpdatedTo == str("Event name successfully updated to '")

\* update_event_name(new_name) on an event with the given title: the new title and the
\* message returned, or ValueError raised
update_event_name(title, new_name) ==
    IF validate_event_name(new_name)
    THEN [raised |-> TRUE, title |-> title, msg |-> <<>>]
    ELSE [raised |-> FALSE, title |-> strip(new_name),
          msg |-> UpdatedTo \o strip(new_name) \o EndQuote]

\* ---------------------------------------------------------------- actions
\* the record of a call; pre_status is the event's status on entry
Call(op, e, u, reason, ok, msg, effects) ==
    [op |-> op, event |-> e, user |-> u.user_id, reason |-> reason,
     ok |-> ok, msg |-> msg, pre_status |-> events[e].status, effects |-> effects]

NoCall ==
    [op |-> "none", event |-> NoneVal, user |-> NoneVal, reason |-> NoReason,
     ok |-> TRUE, msg |-> NoneVal, pre_status |-> NoneVal, effects |-> <<>>]

Tick ==
    \E d \in TickSteps :
        /\ now + d <= MaxTime
        /\ now' = now + d
        /\ UNCHANGED <<events, history, feed, rsvps, logs, last, sync_results, alerts, root_rsvps, titles>>

\* a direct call of Event.cancel(reason, datetime.now())
EventCancel ==
    \E e \in EventIds, reason \in Reasons :
        /\ events' = [events EXCEPT ![e] = cancel(events[e], reason, now)]
        /\ last' = Call("Event.cancel", e, NoUser, reason, TRUE, "canceled", <<>>)
        /\ UNCHANGED <<now, history, feed, rsvps, logs, sync_results, alerts, root_rsvps, titles>>

MgrCancelEvent ==
    \E e \in EventIds, u \in Users, reason \in Reasons :
        LET r == cancel_event(events[e], history, u, reason, now) IN
        /\ events' = [events EXCEPT ![e] = r.event]
        /\ history' = r.history
        /\ last' = Call("cancel_event", e, u, reason, r.ok, r.msg, r.effects)
        /\ UNCHANGED <<now, feed, rsvps, logs, sync_results, alerts, root_rsvps, titles>>

MgrUndoCancel ==
    \E e \in EventIds, u \in Users :
        LET r == undo_cancel(events[e], history, u, now) IN
        /\ events' = [events EXCEPT ![e] = r.event]
        /\ history' = r.history
        /\ last' = Call("undo_cancel", e, u, NoReason, r.ok, r.msg, r.effects)
        /\ UNCHANGED <<now, feed, rsvps, logs, sync_results, alerts, root_rsvps, titles>>

MgrCanUndo ==
    \E e \in EventIds :
        LET c == can_undo_call(events[e], history, now)
            r == c.result IN
        /\ events' = [events EXCEPT ![e] = c.event]
        /\ history' = c.history
        /\ last' = Call("can_undo", e, NoUser, NoReason, r[1], r[2], <<>>)
        /\ UNCHANGED <<now, feed, rsvps, logs, sync_results, alerts, root_rsvps, titles>>

\* EventCancellationService.cancel_event on a registered event
SvcCancelEvent ==
    \E e \in EventIds, reason \in Reasons :
        LET r == service_cancel_event(events[e], feed, rsvps, logs, reason, now) IN
        /\ Len(r.logs) <= MaxLogs
        /\ events' = [events EXCEPT ![e] = r.event]
        /\ feed' = r.feed
        /\ logs' = r.logs
        /\ last' = Call("service.cancel_event", e, NoUser, reason, r.ok, r.msg, r.effects)
        /\ UNCHANGED <<now, history, rsvps, sync_results, alerts, root_rsvps, titles>>

Init ==
    /\ now = 0
    /\ \E org \in [EventIds -> Organizers], st \in [EventIds -> StartTimes],
          s \in [EventIds -> InitStatuses] :
          events = [e \in EventIds |-> Event(e, st[e], org[e], s[e])]
    /\ history = [e \in EventIds |-> NoRecord]
    /\ feed = <<>>
    /\ rsvps = <<>>
    /\ logs = <<>>
    /\ sync_results = <<>>
    /\ alerts = [u \in AlertUsers |-> <<>>]
    /\ root_rsvps = <<>>
    /\ titles = InitialTitles
    /\ last = NoCall

Next == Tick \/ EventCancel \/ MgrCancelEvent \/ MgrUndoCancel \/ MgrCanUndo

Spec == Init /\ [][Next]_vars

\* The service in front of the manager: the events are in the feed when they are
\* not canceled, and students have RSVPed before the run.
RsvpStores ==
    UNION { { [i \in 1..n |-> RSVP(ev[i], StudentAt(i), st[i])] :
                ev \in [1..n -> EventIds \cup {OtherEventId}], st \in [1..n -> RsvpStatuses] } :
            n \in 0..MaxRsvps }

InitService ==
    /\ now \in {0} \cup TickSteps
    /\ \E org \in [EventIds -> Organizers], st \in [EventIds -> StartTimes],
          s \in [EventIds -> InitStatuses] :
          events = [e \in EventIds |-> Event(e, st[e], org[e], s[e])]
    /\ history = [e \in EventIds |-> NoRecord]
    /\ feed = add_event(<<>>, events["e1"])
    /\ rsvps \in RsvpStores
    /\ logs = <<>>
    /\ sync_results = <<>>
    /\ alerts = [u \in AlertUsers |-> <<>>]
    /\ root_rsvps = <<>>
    /\ titles = InitialTitles
    /\ last = NoCall

NextService == SvcCancelEvent \/ MgrCancelEvent

SpecService == InitService /\ [][NextService]_vars

\* ---- the validator on its own: events that start in the past, inside 24 hours, in
\* exactly 24 hours and later
NoticeStartTimes == StartTimes \cup {3, 1440}

\* a direct call of validate_cancellation_reason(event, reason)
\* the reasons handed to the validator: those of the cancel calls, and reasons with a
\* form feed, a no-break space, an em space or a next-line character, which str.strip()
\* removes at the ends and keeps inside
ValidatedReasons ==
    Reasons \cup {<<12>>, <<32, 12>>, <<160>>, <<8195, 133>>, <<12, 97, 12, 98, 160>>}

Validate ==
    \E e \in EventIds, reason \in ValidatedReasons :
        LET v == validate_cancellation_reason(events[e], reason, now) IN
        /\ last' = [op |-> "validate_cancellation_reason", event |-> e, reason |-> reason,
                    raised |-> v.raised, valid |-> v.valid,
                    is_late_cancellation |-> v.is_late_cancellation,
                    minutes_until_event |-> v.minutes_until_event]
        /\ UNCHANGED <<now, events, history, feed, rsvps, logs, sync_results, alerts, root_rsvps, titles>>

InitValidate ==
    /\ now = 0
    /\ \E org \in [EventIds -> Organizers], st \in [EventIds -> NoticeStartTimes],
          s \in [EventIds -> InitStatuses] :
          events = [e \in EventIds |-> Event(e, st[e], org[e], s[e])]
    /\ history = [e \in EventIds |-> NoRecord]
    /\ feed = <<>>
    /\ rsvps = <<>>
    /\ logs = <<>>
    /\ sync_results = <<>>
    /\ alerts = [u \in AlertUsers |-> <<>>]
    /\ root_rsvps = <<>>
    /\ titles = InitialTitles
    /\ last = NoCall

NextValidate == Tick \/ Validate

SpecValidate == InitValidate /\ [][NextValidate]_vars

\* ---- the RSVP notifier on its own, over every RSVP store
\* a direct call of notify_rsvp_cancellation(event)
Notify ==
    \E e \in EventIds :
        LET r == notify_rsvp_cancellation(events[e], rsvps, logs, now) IN
        /\ Len(r.logs) <= MaxLogs
        /\ logs' = r.logs
        /\ last' = [op |-> "notify_rsvp_cancellation", event |-> r.event_id,
                    rsvp_count |-> r.rsvp_count, notifications_sent |-> r.notifications_sent,
                    urgent |-> r.urgent, minutes_until_event |-> r.minutes_until_event,
                    notified_students |-> r.notified_students, timestamp |-> now]
        /\ UNCHANGED <<now, events, history, feed, rsvps, sync_results, alerts, root_rsvps, titles>>

InitNotify ==
    /\ now \in {0} \cup TickSteps
    /\ \E st \in [EventIds -> NoticeStartTimes], s \in [EventIds -> InitStatuses] :
          events = [e \in EventIds |-> Event(e, st[e], "t1", s[e])]
    /\ history = [e \in EventIds |-> NoRecord]
    /\ feed = <<>>
    /\ rsvps \in RsvpStores
    /\ logs = <<>>
    /\ sync_results = <<>>
    /\ alerts = [u \in AlertUsers |-> <<>>]
    /\ root_rsvps = <<>>
    /\ titles = InitialTitles
    /\ last = NoCall

NextNotify == Notify \/ Validate

SpecNotify == InitNotify /\ [][NextNotify]_vars

\* ---- the notification log written by its two writers
\* the notification types and students a caller of log_notification may put in an entry
NotificationTypes == {"CANCELLATION", "REMINDER"}
LoggedStudents == { StudentAt(i) : i \in 1..MaxRsvps }

\* a direct call of log_notification(NotificationLog(...)) with an entry of the caller's
\* making: any student, type and urgent flag, sent at the start or now
LogNotification ==
    \E s \in LoggedStudents, e \in EventIds, ty \in NotificationTypes,
       sent_at \in {0, now}, u \in BOOLEAN :
        /\ Len(logs) < MaxLogs
        /\ logs' = log_notification(logs, NotificationLog(s, e, ty, sent_at, u))
        /\ last' = [op |-> "log_notification", event |-> e, student |-> s,
                    notification_type |-> ty, sent_at |-> sent_at, urgent |-> u]
        /\ UNCHANGED <<now, events, history, feed, rsvps, sync_results, alerts, root_rsvps, titles>>

InitLog ==
    /\ now = 0
    /\ \E st \in [EventIds -> NoticeStartTimes] :
          events = [e \in EventIds |-> Event(e, st[e], "t1", "SCHEDULED")]
    /\ history = [e \in EventIds |-> NoRecord]
    /\ feed = <<>>
    /\ rsvps \in RsvpStores
    /\ logs = <<>>
    /\ sync_results = <<>>
    /\ alerts = [u \in AlertUsers |-> <<>>]
    /\ root_rsvps = <<>>
    /\ titles = InitialTitles
    /\ last = NoCall

NextLog == LogNotification \/ Notify

SpecLog == InitLog /\ [][NextLog]_vars

\* ---- the RSVP store on its own
RsvpStudents == {"s1", "s2"}
RsvpEventIds == EventIds \cup {OtherEventId}

AddRsvp ==
    \E e \in RsvpEventIds, student \in RsvpStudents, status \in RsvpStatuses :
        /\ Len(rsvps) < MaxRsvps
        /\ rsvps' = add_rsvp(rsvps, RSVP(e, student, status))
        /\ last' = [op |-> "add_rsvp", rsvp |-> RSVP(e, student, status)]
        /\ UNCHANGED <<now, events, history, feed, logs, sync_results, alerts, root_rsvps, titles>>

GetEventRsvps ==
    \E e \in RsvpEventIds :
        /\ last' = [op |-> "get_event_rsvps", event |-> e,
                    returned |-> get_event_rsvps(rsvps, e)]
        /\ UNCHANGED <<now, events, history, feed, rsvps, logs, sync_results, alerts, root_rsvps, titles>>

GetRsvpCount ==
    \E e \in RsvpEventIds :
        /\ last' = [op |-> "get_rsvp_count", event |-> e, count |-> get_rsvp_count(rsvps, e)]
        /\ UNCHANGED <<now, events, history, feed, rsvps, logs, sync_results, alerts, root_rsvps, titles>>

InitRsvp ==
    /\ now = 0
    /\ \E s \in [EventIds -> InitStatuses] :
          events = [e \in EventIds |-> Event(e, 480, "t1", s[e])]
    /\ history = [e \in EventIds |-> NoRecord]
    /\ feed = <<>>
    /\ rsvps = <<>>
    /\ logs = <<>>
    /\ sync_results = <<>>
    /\ alerts = [u \in AlertUsers |-> <<>>]
    /\ root_rsvps = <<>>
    /\ titles = InitialTitles
    /\ last = NoCall

NextRsvp == AddRsvp \/ GetEventRsvps \/ GetRsvpCount

SpecRsvp == InitRsvp /\ [][NextRsvp]_vars

\* ---- the calendar sync service on its own
Integrations == {"google_calendar", "outlook", "bogus"}

IntegrationArgs ==
    {NoIntegrations} \cup
    { Listed(l) : l \in UNION { [1..n -> Integrations] : n \in 0..MaxIntegrations } }

\* sync_event(event, integrations)
SyncEvent ==
    \E e \in EventIds, arg \in IntegrationArgs :
        LET r == sync_event(events[e], arg, sync_results, now) IN
        /\ Len(r.results) <= MaxSyncResults
        /\ sync_results' = r.results
        /\ last' = [op |-> "sync_event", event |-> e, integrations |-> arg,
                    raised |-> FALSE, pushes |-> r.pushes, ret |-> r.ret]
        /\ UNCHANGED <<now, events, history, feed, rsvps, logs, alerts, root_rsvps, titles>>

\* a direct call of generate_ics_data(event)
GenerateIcs ==
    \E e \in EventIds :
        LET g == generate_ics_data(events[e]) IN
        /\ last' = [op |-> "generate_ics_data", event |-> e, raised |-> g.raised,
                    ics |-> g.ics]
        /\ UNCHANGED <<now, events, history, feed, rsvps, logs, sync_results, alerts, root_rsvps, titles>>

\* events of every status, one of them with a start the calendar library rejects
InitSync ==
    /\ now \in {0} \cup TickSteps
    /\ \E st \in [EventIds -> StartTimes \cup {NoTime}], s \in [EventIds -> InitStatuses] :
          events = [e \in EventIds |-> Event(e, st[e], "t1", s[e])]
    /\ history = [e \in EventIds |-> NoRecord]
    /\ feed = <<>>
    /\ rsvps = <<>>
    /\ logs = <<>>
    /\ sync_results = <<>>
    /\ alerts = [u \in AlertUsers |-> <<>>]
    /\ root_rsvps = <<>>
    /\ titles = InitialTitles
    /\ last = NoCall

NextSync == SyncEvent \/ GenerateIcs \/ EventCancel

SpecSync == InitSync /\ [][NextSync]_vars

\* ---- the feed on its own
FeedAddEvent ==
    \E e \in EventIds :
        /\ Len(add_event(feed, events[e])) <= MaxFeed
        /\ feed' = add_event(feed, events[e])
        /\ last' = [op |-> "add_event", event |-> e]
        /\ UNCHANGED <<now, events, history, rsvps, logs, sync_results, alerts, root_rsvps, titles>>

FeedRemoveEvent ==
    \E e \in EventIds :
        /\ feed' = remove_event(feed, events[e])
        /\ last' = [op |-> "remove_event", event |-> e]
        /\ UNCHANGED <<now, events, history, rsvps, logs, sync_results, alerts, root_rsvps, titles>>

InitFeed ==
    /\ now \in {0} \cup TickSteps
    /\ \E st \in [EventIds -> StartTimes], s \in [EventIds -> InitStatuses] :
          events = [e \in EventIds |-> Event(e, st[e], "t1", s[e])]
    /\ history = [e \in EventIds |-> NoRecord]
    /\ feed = <<>>
    /\ rsvps = <<>>
    /\ logs = <<>>
    /\ sync_results = <<>>
    /\ alerts = [u \in AlertUsers |-> <<>>]
    /\ root_rsvps = <<>>
    /\ titles = InitialTitles
    /\ last = NoCall

NextFeed == FeedAddEvent \/ FeedRemoveEvent \/ EventCancel

SpecFeed == InitFeed /\ [][NextFeed]_vars

\* ---- the feed and the cancellation service that removes from it
InitFeedService ==
    /\ now \in {0} \cup TickSteps
    /\ \E st \in [EventIds -> StartTimes], s \in [EventIds -> InitStatuses] :
          events = [e \in EventIds |-> Event(e, st[e], "t1", s[e])]
    /\ history = [e \in EventIds |-> NoRecord]
    /\ feed = <<>>
    /\ rsvps = <<>>
    /\ logs = <<>>
    /\ sync_results = <<>>
    /\ alerts = [u \in AlertUsers |-> <<>>]
    /\ root_rsvps = <<>>
    /\ titles = InitialTitles
    /\ last = NoCall

NextFeedService == FeedAddEvent \/ SvcCancelEvent

SpecFeedService == InitFeedService /\ [][NextFeedService]_vars

\* ---- events that are changed through the manager only: they start out not canceled
\* and Event.cancel is never called on them directly
InitManagerOnly ==
    /\ now = 0
    /\ \E org \in [EventIds -> Organizers], st \in [EventIds -> StartTimes],
          s \in [EventIds -> InitStatuses \ {"CANCELED"}] :
          events = [e \in EventIds |-> Event(e, st[e], org[e], s[e])]
    /\ history = [e \in EventIds |-> NoRecord]
    /\ feed = <<>>
    /\ rsvps = <<>>
    /\ logs = <<>>
    /\ sync_results = <<>>
    /\ alerts = [u \in AlertUsers |-> <<>>]
    /\ root_rsvps = <<>>
    /\ titles = InitialTitles
    /\ last = NoCall

NextManagerOnly == Tick \/ MgrCancelEvent \/ MgrUndoCancel \/ MgrCanUndo

SpecManagerOnly == InitManagerOnly /\ [][NextManagerOnly]_vars

\* ---- the manager, with the call record extended by what happened earlier in the run:
\* the number of successful cancellations and undos (counted up to 2) and the time of the
\* first successful cancellation
TrackedCancelEvent ==
    \E e \in EventIds, u \in Users, reason \in {NoReason, str("sick")} :
        LET r == cancel_event(events[e], history, u, reason, now)
            cancels == IF "cancels" \in DOMAIN last THEN last.cancels ELSE 0
            undos == IF "undos" \in DOMAIN last THEN last.undos ELSE 0
            first == IF "first_canceled_at" \in DOMAIN last THEN last.first_canceled_at
                     ELSE NoTime IN
        /\ events' = [events EXCEPT ![e] = r.event]
        /\ history' = r.history
        /\ last' = [op |-> "cancel_event", event |-> e, user |-> u.user_id, ok |-> r.ok,
                    msg |-> r.msg,
                    cancels |-> IF r.ok /\ cancels < 2 THEN cancels + 1 ELSE cancels,
                    undos |-> undos,
                    first_canceled_at |-> IF r.ok /\ first = NoTime THEN now ELSE first]
        /\ UNCHANGED <<now, feed, rsvps, logs, sync_results, alerts, root_rsvps, titles>>

TrackedUndoCancel ==
    \E e \in EventIds, u \in Users :
        LET r == undo_cancel(events[e], history, u, now)
            cancels == IF "cancels" \in DOMAIN last THEN last.cancels ELSE 0
            undos == IF "undos" \in DOMAIN last THEN last.undos ELSE 0
            first == IF "first_canceled_at" \in DOMAIN last THEN last.first_canceled_at
                     ELSE NoTime IN
        /\ events' = [events EXCEPT ![e] = r.event]
        /\ history' = r.history
        /\ last' = [op |-> "undo_cancel", event |-> e, user |-> u.user_id, ok |-> r.ok,
                    msg |-> r.msg, cancels |-> cancels,
                    undos |-> IF r.ok /\ undos < 2 THEN undos + 1 ELSE undos,
                    first_canceled_at |-> first]
        /\ UNCHANGED <<now, feed, rsvps, logs, sync_results, alerts, root_rsvps, titles>>

NextRecancel == Tick \/ TrackedCancelEvent \/ TrackedUndoCancel

SpecRecancel == InitManagerOnly /\ [][NextRecancel]_vars

\* ---- the manager with collaborators that may fail
MgrCancelEventWith ==
    \E e \in EventIds, u \in Users, reason \in Reasons,
       n \in CollaboratorBehaviours, f \in FeedServices :
        LET r == cancel_event_with(events[e], feed, history, u, reason, now, n, f) IN
        /\ events' = [events EXCEPT ![e] = r.event]
        /\ history' = r.history
        /\ feed' = r.feed
        /\ last' = Call("cancel_event", e, u, reason, r.ok, r.msg, r.effects)
        /\ UNCHANGED <<now, rsvps, logs, sync_results, alerts, root_rsvps, titles>>

MgrUndoCancelWith ==
    \E e \in EventIds, u \in Users,
       n \in CollaboratorBehaviours, f \in FeedServices :
        LET r == undo_cancel_with(events[e], feed, history, u, now, n, f) IN
        /\ Len(r.feed) <= MaxFeed
        /\ events' = [events EXCEPT ![e] = r.event]
        /\ history' = r.history
        /\ feed' = r.feed
        /\ last' = Call("undo_cancel", e, u, NoReason, r.ok, r.msg, r.effects)
        /\ UNCHANGED <<now, rsvps, logs, sync_results, alerts, root_rsvps, titles>>

NextCollaborators == Tick \/ MgrCancelEventWith \/ MgrUndoCancelWith

SpecCollaborators == Init /\ [][NextCollaborators]_vars

\* ---- alert subscriptions
\* alert objects: two ids, and two objects with different descriptions for each id
AlertObjects == { Alert(id, "seminar", d) : id \in {"a1", "a2"}, d \in {"d1", "d2"} }

Subscribe ==
    \E u \in AlertUsers, alert \in AlertObjects :
        LET r == subscribe_to_alert(alerts[u], alert) IN
        /\ alerts' = [alerts EXCEPT ![u] = r.alerts]
        /\ last' = [op |-> "subscribe_to_alert", user |-> u, alert |-> alert, msg |-> r.msg]
        /\ UNCHANGED <<now, events, history, feed, rsvps, logs, sync_results, root_rsvps, titles>>

Unsubscribe ==
    \E u \in AlertUsers, alert \in AlertObjects :
        LET r == unsubscribe_from_alert(alerts[u], alert) IN
        /\ alerts' = [alerts EXCEPT ![u] = r.alerts]
        /\ last' = [op |-> "unsubscribe_from_alert", user |-> u, alert |-> alert,
                    msg |-> r.msg]
        /\ UNCHANGED <<now, events, history, feed, rsvps, logs, sync_results, root_rsvps, titles>>

InitAlerts ==
    /\ now = 0
    /\ events = [e \in EventIds |-> Event(e, 480, "t1", "SCHEDULED")]
    /\ history = [e \in EventIds |-> NoRecord]
    /\ feed = <<>>
    /\ rsvps = <<>>
    /\ logs = <<>>
    /\ sync_results = <<>>
    /\ alerts = [u \in AlertUsers |-> <<>>]
    /\ root_rsvps = <<>>
    /\ titles = InitialTitles
    /\ last = NoCall

NextAlerts == Subscribe \/ Unsubscribe

SpecAlerts == InitAlerts /\ [][NextAlerts]_vars

\* ---- the root-level RSVP service; its events are known by their titles

CreateRsvp ==
    \E event \in RootEvents, u \in Users :
        LET r == create_rsvp(root_rsvps, event, titles[event], u, now) IN
        /\ Len(r.rsvps) <= MaxRootRsvps
        /\ root_rsvps' = r.rsvps
        /\ last' = [op |-> "create_rsvp", event |-> event, user |-> u.user_id, msg |-> r.msg]
        /\ UNCHANGED <<now, events, history, feed, rsvps, logs, sync_results, alerts, titles>>

CancelRsvp ==
    \E event \in RootEvents, u \in Users :
        LET r == cancel_rsvp(root_rsvps, event, titles[event], u) IN
        /\ root_rsvps' = r.rsvps
        /\ last' = [op |-> "cancel_rsvp", event |-> event, user |-> u.user_id, msg |-> r.msg]
        /\ UNCHANGED <<now, events, history, feed, rsvps, logs, sync_results, alerts, titles>>

\* the names handed to update_event_name: two that pass (one of them between a no-break
\* space and an em space, which strip() removes), a blank one and one with a banned word
NewNames ==
    { str("Seminar"),
      <<160>> \o str("Hackathon 2030") \o <<8195>>,
      <<32, 160, 32>>,
      str("My DUMMY event") }

\* event.update_event_name(new_name)
UpdateEventName ==
    \E event \in RootEvents, new_name \in NewNames :
        LET r == update_event_name(titles[event], new_name) IN
        /\ titles' = [titles EXCEPT ![event] = r.title]
        /\ last' = [op |-> "update_event_name", event |-> event, new_name |-> new_name,
                    raised |-> r.raised, msg |-> r.msg]
        /\ UNCHANGED <<now, events, history, feed, rsvps, logs, sync_results, alerts,
                       root_rsvps>>

InitRootRsvp ==
    /\ now = 0
    /\ events = [e \in EventIds |-> Event(e, 480, "t1", "SCHEDULED")]
    /\ history = [e \in EventIds |-> NoRecord]
    /\ feed = <<>>
    /\ rsvps = <<>>
    /\ logs = <<>>
    /\ sync_results = <<>>
    /\ alerts = [u \in AlertUsers |-> <<>>]
    /\ root_rsvps = <<>>
    /\ titles = InitialTitles
    /\ last = NoCall

NextRootRsvp == CreateRsvp \/ CancelRsvp \/ UpdateEventName

SpecRootRsvp == InitRootRsvp /\ [][NextRootRsvp]_vars

\* ------------------------------------------------------------- properties
\* a step that is a call: the call record changes
CallStep == last' # last

RoleOf(user_id) == (CHOOSE u \in Users : u.user_id = user_id).role

\* the claimed rule: a teacher, or the organizer of the event
MayManage(event, user_id) == RoleOf(user_id) = "teacher" \/ user_id = event.organizer_id

MetadataCleared(event) ==
    /\ event.canceled_at = NoTime
    /\ event.canceled_by = NoneVal
    /\ event.cancellation_reason = NoReason

\* C1: cancel_event followed directly, within 10 minutes, by undo_cancel of the same
\* actor on the same event succeeds, puts event.status back to the status the event had
\* when cancel_event was called, and sets canceled_at, canceled_by and
\* cancellation_reason to None.
C1_CancelThenUndoRestores ==
    [][ ( /\ last.op = "cancel_event" /\ last.ok
          /\ last'.op = "undo_cancel"
          /\ last'.event = last.event /\ last'.user = last.user
          /\ now - events[last.event].canceled_at <= UndoWindowMinutes )
        => ( /\ last'.ok
             /\ events'[last.event].status = last.pre_status
             /\ MetadataCleared(events'[last.event]) ) ]_vars

\* a POSTPONED event was canceled and the cancellation undone some minutes later
C1_Witness ==
    /\ last.op = "undo_cancel" /\ last.ok
    /\ events[last.event].status = "POSTPONED"
    /\ now > 0

\* C2: when the other preconditions hold (cancel: the event is not CANCELED; undo: it is
\* CANCELED, has a record and is inside the window), the call succeeds if and only if the
\* actor is a teacher or the event's organizer.
C2_PermittedIffTeacherOrOrganizer ==
    [][ /\ ( /\ CallStep /\ last'.op = "cancel_event"
             /\ events[last'.event].status # "CANCELED" )
           => ( last'.ok <=> MayManage(events[last'.event], last'.user) )
        /\ ( /\ CallStep /\ last'.op = "undo_cancel"
             /\ events[last'.event].status = "CANCELED"
             /\ history[last'.event] # NoRecord
             /\ now - events[last'.event].canceled_at <= UndoWindowMinutes )
           => ( last'.ok <=> MayManage(events[last'.event], last'.user) ) ]_vars

\* the teacher has undone the cancellation of an event organized by a student
C2_Witness ==
    /\ last.op = "undo_cancel" /\ last.ok
    /\ RoleOf(last.user) = "teacher"
    /\ events[last.event].organizer_id # last.user

\* C3: cancel_event by an actor who is neither a teacher nor the organizer raises the
\* permission error, changes neither the event nor the manager's records nor the feed
\* nor the notification log, and invokes no collaborator.
C3_DeniedCancelChangesNothing ==
    [][ ( /\ CallStep /\ last'.op = "cancel_event"
          /\ ~MayManage(events[last'.event], last'.user) )
        => ( /\ ~last'.ok /\ last'.msg = "permission"
             /\ events' = events /\ history' = history
             /\ feed' = feed /\ logs' = logs
             /\ last'.effects = <<>> ) ]_vars

\* a student who is not the organizer was refused on an event that could be canceled
C3_Witness ==
    /\ last.op = "cancel_event" /\ last.msg = "permission"
    /\ RoleOf(last.user) = "student"
    /\ events[last.event].status # "CANCELED"

\* C4: cancel_event on a CANCELED event never succeeds; a permitted actor gets the
\* already-canceled error; the event and the cancellation records stay as they were.
C4_RecancelRejected ==
    [][ ( /\ CallStep /\ last'.op = "cancel_event"
          /\ events[last'.event].status = "CANCELED" )
        => ( /\ ~last'.ok
             /\ MayManage(events[last'.event], last'.user) => last'.msg = "already_canceled"
             /\ events' = events /\ history' = history ) ]_vars

\* a second cancel_event was refused while the record of the first one is held
C4_Witness ==
    /\ last.op = "cancel_event" /\ last.msg = "already_canceled"
    /\ history[last.event] # NoRecord
\* the reasons the claim calls empty or all-whitespace
BlankReasons == {str(""), str(" ")}

\* fewer than 24 hours (1440 minutes) to the start of the event
StartsWithin24h(event) == event.starts_at - now < 1440

\* C5 (as stated): every cancel_event entry point, called by the organizer with an empty
\* or all-whitespace reason on an event that starts in fewer than 24 hours, raises
\* ValidationError and changes nothing.
C5_BlankLateCancelRejectedEverywhere ==
    [][ ( /\ CallStep
          /\ \/ last'.op = "service.cancel_event"
             \/ last'.op = "cancel_event" /\ last'.user = events[last'.event].organizer_id
          /\ last'.reason \in BlankReasons
          /\ StartsWithin24h(events[last'.event]) )
        => ( /\ ~last'.ok /\ last'.msg = "validation"
             /\ events' = events /\ history' = history
             /\ feed' = feed /\ logs' = logs
             /\ last'.effects = <<>> ) ]_vars

\* C5 (amended): EventCancellationService.cancel_event(event, reason) with an empty or
\* all-whitespace reason on an event that starts in fewer than 24 hours raises
\* ValidationError before any mutation: the event keeps its status and fields, no
\* cancellation record is created, the feed and the notification log are unchanged.
C5_ServiceRejectsBlankLateCancel ==
    [][ ( /\ CallStep /\ last'.op = "service.cancel_event"
          /\ last'.reason \in BlankReasons
          /\ StartsWithin24h(events[last'.event]) )
        => ( /\ ~last'.ok /\ last'.msg = "validation"
             /\ events' = events /\ history' = history
             /\ feed' = feed /\ logs' = logs
             /\ last'.effects = <<>> ) ]_vars

\* the service refused a whitespace reason for a SCHEDULED event that is in the feed and
\* has a confirmed RSVP
C5_Witness ==
    /\ last.op = "service.cancel_event" /\ last.msg = "validation"
    /\ last.reason = str(" ")
    /\ events[last.event].status = "SCHEDULED"
    /\ feed = <<last.event>>
    /\ Len(get_event_rsvps(rsvps, last.event)) > 0
    /\ logs = <<>>

\* C6: undo_cancel on a CANCELED event with a record fails with the window-expired
\* error exactly when more than 10 minutes have passed since event.canceled_at (exactly
\* 10 minutes is still inside); the failure leaves the event and the record unchanged.
C6_ExpiredExactlyAfterTenMinutes ==
    [][ ( /\ CallStep /\ last'.op = "undo_cancel"
          /\ events[last'.event].status = "CANCELED"
          /\ history[last'.event] # NoRecord )
        => ( /\ (last'.msg = "expired") <=> (now > events[last'.event].canceled_at + 10)
             /\ last'.msg = "expired" =>
                   /\ ~last'.ok
                   /\ events' = events /\ history' = history ) ]_vars

\* an undo was refused 11 minutes after the cancellation
C6_Witness ==
    /\ last.op = "undo_cancel" /\ last.msg = "expired"
    /\ events[last.event].status = "CANCELED"
    /\ now - events[last.event].canceled_at = 11

\* C7: can_undo returns true if and only if the manager holds a record for the event id
\* (a record is dropped when the cancellation is undone) and now is at most 10 minutes
\* after event.canceled_at.
C7_CanUndoIffRecordInsideWindow ==
    [][ ( CallStep /\ last'.op = "can_undo" )
        => ( last'.ok <=> ( /\ history[last'.event] # NoRecord
                            /\ now <= events[last'.event].canceled_at + 10 ) ) ]_vars

\* can_undo said yes exactly 10 minutes after the cancellation
C7_Witness ==
    /\ last.op = "can_undo" /\ last.ok
    /\ now - events[last.event].canceled_at = 10

\* C8: undo_cancel raises the not-canceled error when the event is not CANCELED and the
\* no-history error when it is CANCELED without a record; both leave the event and the
\* records unchanged.
C8_UndoNeedsCanceledEventWithRecord ==
    [][ ( CallStep /\ last'.op = "undo_cancel" )
        => ( /\ events[last'.event].status # "CANCELED" =>
                   /\ ~last'.ok /\ last'.msg = "not_canceled"
                   /\ events' = events /\ history' = history
             /\ ( /\ events[last'.event].status = "CANCELED"
                  /\ history[last'.event] = NoRecord ) =>
                   /\ ~last'.ok /\ last'.msg = "no_history"
                   /\ events' = events /\ history' = history ) ]_vars

\* an undo was refused for an event canceled behind the manager's back
C8_Witness ==
    /\ last.op = "undo_cancel" /\ last.msg = "no_history"
    /\ events[last.event].status = "CANCELED"
    /\ events[last.event].canceled_at # NoTime

Present(v) == v # NoneVal /\ v # Absent

\* C9 (as stated): the cancellation metadata (reason, timestamp, canceling user) is
\* present if and only if the status is CANCELED.
C9_MetadataIffCanceled ==
    \A e \in EventIds :
        (events[e].status = "CANCELED")
            <=> ( /\ events[e].cancellation_reason # NoReason
                  /\ events[e].canceled_at # NoTime
                  /\ Present(events[e].canceled_by) )

\* C9 (amended): cancellation metadata is present only if the status is CANCELED: an
\* event that is not CANCELED has no reason, no cancellation timestamp and no canceling
\* user.
C9_MetadataOnlyIfCanceled ==
    \A e \in EventIds :
        events[e].status # "CANCELED"
            => ( /\ events[e].cancellation_reason = NoReason
                 /\ events[e].canceled_at = NoTime
                 /\ ~Present(events[e].canceled_by) )

\* a cancellation with a reason was undone: the event is no longer CANCELED
C9_Witness ==
    /\ last.op = "undo_cancel" /\ last.ok
    /\ events[last.event].status = "SCHEDULED"
    /\ history[last.event] = NoRecord

\* C10: after a successful undo_cancel the cancellation record of the event id is
\* retained (marked as undone, not deleted): get_cancellation_history still returns it.
C10_RecordKeptAfterUndo ==
    ( last.op = "undo_cancel" /\ last.ok )
        => get_cancellation_history(history, last.event) # NoRecord

\* the five answers can_undo can return
CanUndoAnswers ==
    { <<FALSE, "Event is not canceled">>, <<FALSE, "No cancellation history found">>,
      <<FALSE, "Cancellation timestamp not found">>, <<FALSE, "Time window expired">>,
      <<TRUE, "Can be undone">> }

\* C11: can_undo never raises and never changes any state: whatever the state of the
\* event (never canceled, canceled, expired, already undone) the call returns one of its
\* answers and leaves the event, the manager's records, the feed and the notification
\* log exactly as they were.
C11_CanUndoIsPureQuery ==
    [][ ( CallStep /\ last'.op = "can_undo" )
        => ( /\ <<last'.ok, last'.msg>> \in CanUndoAnswers
             /\ events' = events
             /\ history' = history
             /\ feed' = feed
             /\ logs' = logs ) ]_vars

\* can_undo was asked about a canceled event whose record is older than the window
C11_Witness ==
    /\ last.op = "can_undo" /\ last.msg = "Time window expired"
    /\ events[last.event].status = "CANCELED"
    /\ history[last.event] # NoRecord

\* no reason at all, an empty one, or one made of whitespace
NoReasonGiven == BlankReasons \cup {NoReason}

\* no reason, or a reason made of whitespace characters only
EmptyOrAllWhitespace(reason) ==
    \/ reason \in NoReasonGiven
    \/ \A i \in 1..Len(reason) : reason[i] \in Whitespace

\* C12: validate_cancellation_reason raises ValidationError exactly when fewer than 24
\* hours remain before the start and the reason is empty or all whitespace; with 24 hours
\* or more (exactly 24 included) it never raises; when it returns, valid is true and
\* is_late_cancellation says whether fewer than 24 hours remain (an event that has
\* already started is late); the event is never modified.
C12_ValidatorRaisesIffLateAndBlank ==
    [][ ( CallStep /\ last'.op = "validate_cancellation_reason" )
        => LET remaining == events[last'.event].starts_at - now IN
           /\ last'.raised <=> ( remaining < 24 * 60 /\ EmptyOrAllWhitespace(last'.reason) )
           /\ remaining >= 24 * 60 => ~last'.raised
           /\ ~last'.raised => ( /\ last'.valid
                                 /\ last'.is_late_cancellation <=> remaining < 24 * 60 )
           /\ remaining < 0 /\ ~last'.raised => last'.is_late_cancellation
           /\ events' = events ]_vars

\* a blank reason was accepted with exactly 24 hours of notice
C12_Witness ==
    /\ last.op = "validate_cancellation_reason"
    /\ last.reason \in BlankReasons
    /\ last.minutes_until_event = 24 * 60
    /\ ~last.raised /\ last.valid /\ ~last.is_late_cancellation

\* a step that is a call of notify_rsvp_cancellation (a repeated call returns the same
\* result, and shows in the log)
NotifyStep == last'.op = "notify_rsvp_cancellation" /\ ( CallStep \/ logs' # logs )

\* the positions of the stored RSVPs that are CONFIRMED for the event
ConfirmedAt(event_id) ==
    { i \in 1..Len(rsvps) : rsvps[i].event_id = event_id /\ rsvps[i].status = "CONFIRMED" }

\* ids lists the students of the RSVPs at the positions idx, in stored order
InStoredOrder(ids, idx) ==
    /\ Len(ids) = Cardinality(idx)
    /\ \E f \in [1..Len(ids) -> idx] :
          /\ \A a, b \in 1..Len(ids) : a < b => f[a] < f[b]
          /\ \A k \in 1..Len(ids) : ids[k] = rsvps[f[k]].student_id

\* C13: with N CONFIRMED RSVPs for the event (next to non-confirmed RSVPs and RSVPs for
\* other events), notify_rsvp_cancellation returns rsvp_count = notifications_sent = N
\* and the N confirmed student ids in insertion order, and appends exactly N
\* CANCELLATION entries for that event to the notification log, keeping the earlier
\* entries; with N = 0 the counts are zero, the list is empty and nothing is appended.
C13_NotifiesExactlyConfirmedRsvps ==
    [][ NotifyStep
        => LET e == last'.event
               N == Cardinality(ConfirmedAt(e))
               ids == last'.notified_students IN
           /\ last'.rsvp_count = N /\ last'.notifications_sent = N
           /\ InStoredOrder(ids, ConfirmedAt(e))
           /\ Len(logs') = Len(logs) + N
           /\ SubSeq(logs', 1, Len(logs)) = logs
           /\ \A k \in 1..N :
                 /\ logs'[Len(logs) + k].notification_type = "CANCELLATION"
                 /\ logs'[Len(logs) + k].event_id = e
                 /\ logs'[Len(logs) + k].student_id = ids[k]
           /\ N = 0 => ( ids = <<>> /\ logs' = logs )
           /\ rsvps' = rsvps ]_vars

\* a second notification for an event with one confirmed RSVP next to another RSVP that
\* does not count: the log holds the earlier entry and the new one
C13_Witness ==
    /\ last.op = "notify_rsvp_cancellation" /\ last.rsvp_count = 1
    /\ Len(rsvps) = 2 /\ Len(logs) = 2
    /\ logs[1].student_id = logs[2].student_id

\* C14: the urgent flag of notify_rsvp_cancellation, in the returned result and in every
\* log entry it writes, equals the is_late_cancellation that validate_cancellation_reason
\* computes for the same event at the same instant; both are true exactly when fewer
\* than 24 hours remain before the start.
C14_UrgentEqualsLateCancellation ==
    [][ NotifyStep
        => LET event == events[last'.event]
               fewer == event.starts_at - now < 24 * 60 IN
           /\ last'.urgent <=> fewer
           /\ \A reason \in Reasons :
                 LET v == validate_cancellation_reason(event, reason, now) IN
                 /\ v.is_late_cancellation <=> fewer
                 /\ ~v.raised => ( v.is_late_cancellation <=> last'.urgent )
           /\ \A k \in Len(logs) + 1 .. Len(logs') :
                 logs'[k].urgent <=> last'.urgent ]_vars

\* an urgent notification was logged for an event that had already started
C14_Witness ==
    /\ last.op = "notify_rsvp_cancellation" /\ last.urgent
    /\ last.minutes_until_event < 0
    /\ Len(logs) > 0 /\ logs[Len(logs)].urgent

\* C15: add_rsvp appends the RSVP unconditionally (a duplicate is accepted and nothing
\* is removed); get_event_rsvps returns exactly the stored RSVPs with that event id and
\* status CONFIRMED, in insertion order; get_rsvp_count is the length of that list.
C15_RsvpStoreAppendsAndFilters ==
    [][ /\ ( last'.op = "add_rsvp" /\ ( CallStep \/ rsvps' # rsvps ) )
           => rsvps' = rsvps \o <<last'.rsvp>>
        /\ ( CallStep /\ last'.op = "get_event_rsvps" )
           => LET got == last'.returned
                  idx == ConfirmedAt(last'.event) IN
              /\ Len(got) = Cardinality(idx)
              /\ \E f \in [1..Len(got) -> idx] :
                    /\ \A a, b \in 1..Len(got) : a < b => f[a] < f[b]
                    /\ \A k \in 1..Len(got) : got[k] = rsvps[f[k]]
              /\ rsvps' = rsvps
        /\ ( CallStep /\ last'.op = "get_rsvp_count" )
           => /\ last'.count = Cardinality(ConfirmedAt(last'.event))
              /\ last'.count = Len(get_event_rsvps(rsvps, last'.event))
              /\ rsvps' = rsvps ]_vars

\* the same student confirmed twice for the same event, and both RSVPs are counted
C15_Witness ==
    /\ Len(rsvps) = 2 /\ rsvps[1] = rsvps[2] /\ rsvps[1].status = "CONFIRMED"
    /\ last.op = "get_rsvp_count" /\ last.event = rsvps[1].event_id /\ last.count = 2

\* a step that is a call of sync_event (a repeated call returns the same dict, and shows
\* in the history)
SyncStep == last'.op = "sync_event" /\ ( CallStep \/ sync_results' # sync_results )

\* the names the call was made for
ListedNames(arg) == IF arg.given THEN arg.names ELSE <<"google_calendar", "outlook">>

KnownIntegrations == {"google_calendar", "outlook"}

\* the entries a call has added to the history
AddedResults == SubSeq(sync_results', Len(sync_results) + 1, Len(sync_results'))

\* C16: sync_event with an integration name it does not recognize never raises; it
\* records one SyncResult with success = false for that name and counts it in
\* integrations_failed (for ['bogus']: synced 0, failed 1), and the failure does not
\* keep the other integrations of the list from being synced.
C16_UnknownIntegrationRecordedAsFailure ==
    [][ ( SyncStep /\ last'.ret.ics_generated )
        => LET names == ListedNames(last'.integrations)
               unknown == { i \in 1..Len(names) : names[i] \notin KnownIntegrations } IN
           /\ ~last'.raised
           /\ Len(AddedResults) = Len(names)
           /\ \A i \in 1..Len(names) :
                 /\ AddedResults[i].integration = names[i]
                 /\ AddedResults[i].success <=> names[i] \in KnownIntegrations
           /\ last'.ret.integrations_failed = Cardinality(unknown)
           /\ last'.ret.integrations_synced = Len(names) - Cardinality(unknown)
           /\ last'.integrations = Listed(<<"bogus">>)
                => ( last'.ret.integrations_synced = 0 /\ last'.ret.integrations_failed = 1 ) ]_vars

\* an unknown name first and a known one after it: one failed, one synced
C16_Witness ==
    /\ last.op = "sync_event" /\ last.integrations = Listed(<<"bogus", "outlook">>)
    /\ last.ret.ics_generated
    /\ last.ret.integrations_failed = 1 /\ last.ret.integrations_synced = 1
    /\ Len(sync_results) >= 2
    /\ ~sync_results[Len(sync_results) - 1].success /\ sync_results[Len(sync_results)].success

\* C17: a sync_event call whose generation succeeds appends exactly one SyncResult per
\* listed integration, in list order, after the entries already in the history (which
\* are neither removed nor reordered), and returns integrations_synced +
\* integrations_failed = number of listed integrations = length of sync_results; with
\* the default list that is synced 2, failed 0.
C17_OneResultPerListedIntegration ==
    [][ ( SyncStep /\ last'.ret.ics_generated )
        => LET names == ListedNames(last'.integrations) IN
           /\ Len(sync_results') = Len(sync_results) + Len(names)
           /\ SubSeq(sync_results', 1, Len(sync_results)) = sync_results
           /\ \A i \in 1..Len(names) :
                 /\ sync_results'[Len(sync_results) + i].integration = names[i]
                 /\ sync_results'[Len(sync_results) + i].event_id = last'.event
           /\ last'.ret.integrations_synced + last'.ret.integrations_failed = Len(names)
           /\ Len(last'.ret.sync_results) = Len(names)
           /\ \A i \in 1..Len(names) : last'.ret.sync_results[i].integration = names[i]
           /\ ~last'.integrations.given
                => ( last'.ret.integrations_synced = 2 /\ last'.ret.integrations_failed = 0 ) ]_vars

\* a default sync after an earlier one: the earlier failure is still the first entry
C17_Witness ==
    /\ last.op = "sync_event" /\ ~last.integrations.given /\ last.ret.ics_generated
    /\ last.ret.integrations_synced = 2
    /\ Len(sync_results) = 3
    /\ sync_results[1].integration = "bogus"
    /\ sync_results[2].integration = "google_calendar"
    /\ sync_results[3].integration = "outlook"

\* C18: when the generation of the calendar document fails, sync_event returns an error
\* result with ics_generated = false, calls no push method and appends no SyncResult.
C18_GenerationFailureStopsSync ==
    [][ ( /\ CallStep /\ last'.op = "sync_event"
          /\ events[last'.event].starts_at = NoTime )
        => ( /\ ~last'.raised
             /\ ~last'.ret.ics_generated
             /\ "error" \in DOMAIN last'.ret
             /\ "integrations_synced" \notin DOMAIN last'.ret
             /\ last'.pushes = <<>>
             /\ sync_results' = sync_results ) ]_vars

\* a sync of two known integrations for an event the calendar library rejects
C18_Witness ==
    /\ last.op = "sync_event" /\ ~last.ret.ics_generated
    /\ last.integrations = Listed(<<"google_calendar", "outlook">>)
    /\ events[last.event].starts_at = NoTime
    /\ sync_results = <<>>

\* the values of a property in a generated document
IcsValues(ics, name) == { ics[i][2] : i \in { j \in 1..Len(ics) : ics[j][1] = name } }

\* C19: generate_ics_data writes the status CANCELLED exactly when event.status is
\* CANCELED and CONFIRMED otherwise (never both), puts the cancellation reason in the
\* description only for a canceled event with a non-empty reason, and changes neither
\* the event nor the sync history.
C19_IcsStatusFollowsEventStatus ==
    [][ ( CallStep /\ last'.op = "generate_ics_data" /\ ~last'.raised )
        => LET event == events[last'.event]
               canceled == event.status = "CANCELED"
               with_reason == canceled /\ event.cancellation_reason \notin {NoReason, <<>>} IN
           /\ Cardinality({ j \in 1..Len(last'.ics) : last'.ics[j][1] = "STATUS" }) = 1
           /\ "CANCELLED" \in IcsValues(last'.ics, "STATUS") <=> canceled
           /\ "CONFIRMED" \in IcsValues(last'.ics, "STATUS") <=> ~canceled
           /\ with_reason
                => IcsValues(last'.ics, "DESCRIPTION") =
                      { str("About ") \o str(event.id) \o <<10, 10>> \o str("CANCELED: ")
                          \o event.cancellation_reason }
           /\ ~with_reason
                => IcsValues(last'.ics, "DESCRIPTION") = { str("About ") \o str(event.id) }
           /\ events' = events
           /\ sync_results' = sync_results ]_vars

\* a document for an event canceled with a reason, after an earlier sync
C19_Witness ==
    /\ last.op = "generate_ics_data" /\ ~last.raised
    /\ events[last.event].status = "CANCELED"
    /\ events[last.event].cancellation_reason = str("sick")
    /\ <<"STATUS", "CANCELLED">> \in { last.ics[i] : i \in 1..Len(last.ics) }
    /\ sync_results # <<>>

\* how many times the event is in the feed
Occurrences(fd, event_id) == Cardinality({ i \in 1..Len(fd) : fd[i] = event_id })

\* C20: FeedService.add_event and remove_event are idempotent: removing an event that is
\* not in the feed and adding one that is already in it change nothing, so every event
\* is in the feed at most once.
C20_FeedAddRemoveIdempotent ==
    [][ /\ ( /\ last'.op = "remove_event" /\ ( CallStep \/ feed' # feed )
             /\ Occurrences(feed, last'.event) = 0 )
           => feed' = feed
        /\ ( /\ last'.op = "add_event" /\ ( CallStep \/ feed' # feed )
             /\ Occurrences(feed, last'.event) > 0 )
           => feed' = feed
        /\ \A e \in EventIds : Occurrences(feed', e) <= 1 ]_vars

\* C21: the feed never shows a canceled event: add_event does not add an event whose
\* status is CANCELED and a successful EventCancellationService.cancel_event removes the
\* event, so after any sequence of add_event and cancel_event calls no event in the feed
\* has status CANCELED.
C21_FeedHoldsNoCanceledEvent ==
    \A i \in 1..Len(feed) : events[feed[i]].status # "CANCELED"

\* C22: when the notification or feed collaborator fails during cancel_event or
\* undo_cancel, the event and the manager's records are not left inconsistent: the event
\* is not CANCELED without its timestamp and record, and not restored to a non-canceled
\* status while the manager still holds the cancellation record.
C22_CollaboratorFailureLeavesConsistentState ==
    [][ ( /\ CallStep /\ last'.op \in {"cancel_event", "undo_cancel"}
          /\ last'.msg = "collaborator" )
        => LET e == last'.event IN
           /\ events'[e].status = "CANCELED"
                => ( events'[e].canceled_at # NoTime /\ history'[e] # NoRecord )
           /\ events'[e].status # "CANCELED" => history'[e] = NoRecord ]_vars

\* the user holds an alert with this id
SubscribedTo(lst, alert_id) == \E i \in 1..Len(lst) : lst[i].alert_id = alert_id

StartsWith(text, prefix) ==
    Len(text) >= Len(prefix) /\ SubSeq(text, 1, Len(prefix)) = prefix

\* C23: after any sequence of subscribe_to_alert / unsubscribe_from_alert calls a user's
\* alerts never hold two alerts with the same alert_id; subscribing to an alert already
\* subscribed to and unsubscribing from one not subscribed to leave the list unchanged
\* and return the 'Already subscribed' / 'Not subscribed to this alert' message; one
\* user's calls never change another user's list.
C23_SubscriptionsUniquePerUser ==
    [][ ( /\ last'.op \in {"subscribe_to_alert", "unsubscribe_from_alert"}
          /\ ( CallStep \/ alerts' # alerts ) )
        => LET u == last'.user
               held == SubscribedTo(alerts[u], last'.alert.alert_id) IN
           /\ \A v \in AlertUsers : \A i, j \in 1..Len(alerts'[v]) :
                 alerts'[v][i].alert_id = alerts'[v][j].alert_id => i = j
           /\ ( last'.op = "subscribe_to_alert" /\ held )
                => ( alerts' = alerts /\ StartsWith(last'.msg, "Already subscribed") )
           /\ ( last'.op = "subscribe_to_alert" /\ ~held )
                => ( /\ alerts'[u] = Append(alerts[u], last'.alert)
                     /\ last'.msg = "Successfully subscribed" )
           /\ ( last'.op = "unsubscribe_from_alert" /\ ~held )
                => ( alerts' = alerts /\ last'.msg = "Not subscribed to this alert" )
           /\ \A v \in AlertUsers \ {u} : alerts'[v] = alerts[v] ]_vars

\* a user who holds alert a1 subscribed again with another object of the same id, while
\* the other user holds a1 as well
C23_Witness ==
    /\ last.op = "subscribe_to_alert" /\ StartsWith(last.msg, "Already subscribed")
    /\ last.alert.alert_id = "a1" /\ last.alert.description = "d2"
    /\ alerts[last.user] = << Alert("a1", "seminar", "d1") >>
    /\ \E v \in AlertUsers \ {last.user} : SubscribedTo(alerts[v], "a1")

\* the positions of the 'going' RSVPs of the user for the event
GoingAt(store, event, user_id) ==
    { i \in 1..Len(store) :
        store[i].event = event /\ store[i].user_id = user_id /\ store[i].status = "going" }

\* C24: in the root-level RSVPService there is at most one 'going' RSVP per (event,
\* user): create_rsvp while one exists adds nothing and reports the duplicate;
\* cancel_rsvp turns exactly that RSVP to 'cancelled' (or reports none found and changes
\* nothing); records are never deleted, so a create_rsvp after a cancel_rsvp adds a new
\* record beside the cancelled one.
C24_OneGoingRsvpPerEventAndUser ==
    [][ ( /\ last'.op \in {"create_rsvp", "cancel_rsvp"}
          /\ ( CallStep \/ root_rsvps' # root_rsvps ) )
        => LET going == GoingAt(root_rsvps, last'.event, last'.user)
               n == Len(root_rsvps) IN
           /\ \A event \in RootEvents, u \in Users :
                 Cardinality(GoingAt(root_rsvps', event, u.user_id)) <= 1
           /\ Len(root_rsvps') >= n
           /\ \A i \in 1..n : /\ root_rsvps'[i].event = root_rsvps[i].event
                               /\ root_rsvps'[i].user_id = root_rsvps[i].user_id
           /\ ( last'.op = "create_rsvp" /\ going # {} )
                => ( /\ root_rsvps' = root_rsvps
                     /\ last'.msg = str("You have already RSVP") \o <<8217>>
                                        \o str("d to this event.") )
           /\ ( last'.op = "create_rsvp" /\ going = {} )
                => ( /\ Len(root_rsvps') = n + 1
                     /\ SubSeq(root_rsvps', 1, n) = root_rsvps
                     /\ root_rsvps'[n + 1].event = last'.event
                     /\ root_rsvps'[n + 1].user_id = last'.user
                     /\ root_rsvps'[n + 1].status = "going" )
           /\ ( last'.op = "cancel_rsvp" /\ going # {} )
                => ( /\ Len(root_rsvps') = n
                     /\ \A i \in 1..n :
                           IF i \in going
                           THEN root_rsvps'[i] = [root_rsvps[i] EXCEPT !.status = "cancelled"]
                           ELSE root_rsvps'[i] = root_rsvps[i] )
           /\ ( last'.op = "cancel_rsvp" /\ going = {} )
                => ( /\ root_rsvps' = root_rsvps
                     /\ last'.msg = str("No active RSVP found to cancel.") ) ]_vars

\* an RSVP made again after it was cancelled: the cancelled record and the new one
C24_Witness ==
    /\ last.op = "create_rsvp" /\ Len(root_rsvps) = 2
    /\ root_rsvps[1].status = "cancelled" /\ root_rsvps[2].status = "going"
    /\ root_rsvps[1].event = root_rsvps[2].event
    /\ root_rsvps[1].user_id = root_rsvps[2].user_id

\* C25: the precondition checks are ordered: cancel_event checks permission before the
\* already-canceled check; undo_cancel checks not-canceled, then no-history, then
\* window-expired, then permission. So an unpermitted actor cancelling a CANCELED event
\* gets the permission error and an unpermitted actor undoing after the window gets the
\* expired error, and every such failure leaves the event and the records unchanged.
C25_PreconditionChecksOrdered ==
    [][ ( CallStep /\ last'.op \in {"cancel_event", "undo_cancel"} )
        => LET event == events[last'.event]
               permitted == MayManage(event, last'.user)
               canceled == event.status = "CANCELED"
               recorded == history[last'.event] # NoRecord
               expired == now - event.canceled_at > 10 IN
           /\ last'.op = "cancel_event" =>
                /\ ~permitted => last'.msg = "permission"
                /\ permitted /\ canceled => last'.msg = "already_canceled"
           /\ last'.op = "undo_cancel" =>
                /\ ~canceled => last'.msg = "not_canceled"
                /\ canceled /\ ~recorded => last'.msg = "no_history"
                /\ canceled /\ recorded /\ expired => last'.msg = "expired"
                /\ canceled /\ recorded /\ ~expired /\ ~permitted => last'.msg = "permission"
           /\ ~last'.ok => ( events' = events /\ history' = history ) ]_vars

\* an actor without permission tried to undo after the window and was told it expired
C25_Witness ==
    /\ last.op = "undo_cancel" /\ last.msg = "expired"
    /\ ~MayManage(events[last.event], last.user)
    /\ events[last.event].status = "CANCELED"
    /\ history[last.event] # NoRecord

\* C26: with the default collaborators, after any sequence of successful or failed
\* cancel_event and undo_cancel calls on events changed only through one manager, the
\* manager holds a cancellation record for an event id if and only if the event's status
\* is CANCELED (the records are a dict keyed by event id: one record per id at most).
C26_RecordHeldIffCanceled ==
    \A e \in EventIds :
        /\ history[e] # NoRecord <=> events[e].status = "CANCELED"
        /\ history[e] # NoRecord => history[e].status # "CANCELED"

\* a canceled event with its record after an undo was refused because the window expired
C26_Witness ==
    /\ last.op = "undo_cancel" /\ last.msg = "expired"
    /\ events[last.event].status = "CANCELED"
    /\ history[last.event] # NoRecord

\* C27: can_undo and undo_cancel agree: in every reachable state and at every instant,
\* for an actor who passes the permission check, undo_cancel(event, actor) succeeds if
\* and only if can_undo(event) returns true at that instant, the exact 10-minute
\* boundary included.
C27_UndoSucceedsIffCanUndo ==
    [][ ( /\ CallStep /\ last'.op = "undo_cancel"
          /\ MayManage(events[last'.event], last'.user) )
        => ( last'.ok <=> can_undo(events[last'.event], history, now)[1] ) ]_vars

\* a permitted actor was refused at 11 minutes, where can_undo says no as well
C27_Witness ==
    /\ last.op = "undo_cancel" /\ ~last.ok
    /\ MayManage(events[last.event], last.user)
    /\ history[last.event] # NoRecord
    /\ now - events[last.event].canceled_at = 11
    /\ ~can_undo(events[last.event], history, now)[1]

\* the cancellation of the event is more than 10 minutes old
WindowClosed(e) ==
    /\ events[e].status = "CANCELED"
    /\ events[e].canceled_at # NoTime
    /\ now - events[e].canceled_at > 10

\* C28: once more than 10 minutes have passed since a cancellation that was not undone,
\* the cancellation is permanent under the manager's operations: every later
\* cancel_event and undo_cancel call by any actor fails, and the event stays CANCELED
\* from then on.
C28_ExpiredCancellationIsPermanent ==
    [][ \A e \in EventIds :
          WindowClosed(e)
          => /\ WindowClosed(e)'
             /\ events'[e] = events[e]
             /\ ( CallStep /\ last'.op \in {"cancel_event", "undo_cancel"} /\ last'.event = e )
                  => ~last'.ok ]_vars

\* the organizer asked for an undo after the window had closed and was refused
C28_Witness ==
    /\ last.op = "undo_cancel" /\ ~last.ok /\ last.msg = "expired"
    /\ last.user = events[last.event].organizer_id
    /\ WindowClosed(last.event)

\* C29: after cancel_event and a successful undo_cancel, a second cancel_event on the
\* event by a permitted actor succeeds, leaves the one cancellation record of the event
\* id holding the status the event had before it, and opens a new 10-minute window
\* counted from the second cancellation: a second undo_cancel inside the new window
\* succeeds even when more than 10 minutes have passed since the first cancellation.
C29_RecancelOpensNewWindow ==
    [][ /\ ( /\ CallStep /\ last'.op = "cancel_event"
             /\ "undos" \in DOMAIN last /\ last.undos >= 1
             /\ events[last'.event].status # "CANCELED"
             /\ MayManage(events[last'.event], last'.user) )
           => ( /\ last'.ok
                /\ history'[last'.event] # NoRecord
                /\ history'[last'.event].status = events[last'.event].status
                /\ events'[last'.event].status = "CANCELED"
                /\ events'[last'.event].canceled_at = now )
        /\ ( /\ CallStep /\ last'.op = "undo_cancel"
             /\ "cancels" \in DOMAIN last /\ last.cancels = 2
             /\ events[last'.event].status = "CANCELED"
             /\ now - events[last'.event].canceled_at <= 10
             /\ MayManage(events[last'.event], last'.user) )
           => ( /\ last'.ok
                /\ events'[last'.event].status # "CANCELED"
                /\ history'[last'.event] = NoRecord ) ]_vars

\* the second cancellation was undone more than 10 minutes after the first one
C29_Witness ==
    /\ last.op = "undo_cancel" /\ last.ok
    /\ last.cancels = 2 /\ last.undos = 2
    /\ now - last.first_canceled_at > 10

\* the CANCELLATION entries of the log for the student and the event
CancellationEntries(lg, student_id, event_id) ==
    { i \in 1..Len(lg) : /\ lg[i].student_id = student_id /\ lg[i].event_id = event_id
                          /\ lg[i].notification_type = "CANCELLATION" }

\* C30: across any sequence of EventCancellationService.cancel_event calls on an event,
\* each confirmed RSVP of the event gets at most one CANCELLATION entry in the
\* notification log: a cancel_event call on an event that is already CANCELED does not
\* notify the students again and does not overwrite canceled_at and cancellation_reason.
C30_RecancelDoesNotNotifyAgain ==
    [][ /\ ( /\ last'.op = "service.cancel_event" /\ ( CallStep \/ logs' # logs )
             /\ events[last'.event].status = "CANCELED" )
           => ( /\ logs' = logs
                /\ events'[last'.event].canceled_at = events[last'.event].canceled_at
                /\ events'[last'.event].cancellation_reason
                      = events[last'.event].cancellation_reason )
        /\ \A e \in EventIds : \A i \in 1..Len(rsvps) :
              Cardinality(CancellationEntries(logs', rsvps[i].student_id, e)) <= 1 ]_vars

====
